---- MODULE Spec2Model ----
(***************************************************************************)
(* Pharmacy point-of-sale backend: the order-creation transaction          *)
(* (createOrder), the purchase-order handlers (update / receive / cancel / *)
(* markAsOrdered) and the stock writers (updateStock, updateMedicine,      *)
(* Medicine.reduceQuantity), over a document store with multi-document     *)
(* transactions (snapshot reads, first-writer-wins write conflicts); the   *)
(* routers of /orders and /suppliers with their role gates; and, on the    *)
(* client, useRole().hasPermission and the initialisation effect of        *)
(* useAuth.                                                                *)
(*                                                                         *)
(* Every handler is an async function: it can be suspended at each await   *)
(* of a database call, so one action is one stretch of a handler between   *)
(* two database calls that other requests can observe.                     *)
(*                                                                         *)
(* Money is a JS Number in the source.  Here an amount is an integer       *)
(* count of 1/Scale currency units, so that percentages of integer prices  *)
(* are exact.                                                              *)
(***************************************************************************)
EXTENDS Integers, Sequences, FiniteSets, TLC

\* Largest on-hand quantity of an entry in the initial catalog.
MaxQty == 2
\* Longest cart of SpecCart.
MaxLines == 2

Scale == 100 * 100

Money(n) == n * Scale

Max(a, b) == IF a >= b THEN a ELSE b

\* Request slots: each runs at most one HTTP request.
Reqs == {"r1", "r2"}

\* Catalog entries that exist, and a reference that matches no entry.
MedIds == {"m1", "m2"}
NoMed == "m0"

\* The purchase order that exists, and a reference that matches none.
PoId == "po1"
NoPo == "po0"

(***************************************************************************)
(* Optional request fields.  A field that is absent from the JSON body is  *)
(* {}, a supplied value v is {v}.                                          *)
(***************************************************************************)
Absent == {}
Some(v) == {v}
Val(x) == CHOOSE v \in x : TRUE

\* JS truthiness of an optional number: undefined and 0 are falsy.
Truthy(x) == x # {} /\ Val(x) # 0

\* JS `x || d` on an optional number.
OrElse(x, d) == IF Truthy(x) THEN Val(x) ELSE d

VARIABLES
  medicines,  \* committed Medicine collection: id -> document
  po,         \* committed PurchaseOrder document po1
  orders,     \* committed Order collection, in insertion order
  pc,         \* per request slot: position in its handler
  req,        \* per request slot: the request (handler and body)
  txn,        \* per request slot: its session's transaction
  loc,        \* per request slot: the handler's local variables
  res,        \* per request slot: the HTTP response sent
  initial,    \* the catalog before any request (never changes)
  auth,       \* client: the store's auth slice (state.auth)
  localStorage \* client: the browser's local storage

vars == <<medicines, po, orders, pc, req, txn, loc, res, initial, auth, localStorage>>

(***************************************************************************)
(* Medicine schema.                                                        *)
(***************************************************************************)
Med(q, e, rp, tp, g) ==
  [quantity |-> q, expired |-> e, batchNumber |-> "b0",
   retailPrice |-> rp, tradePrice |-> tp, gstPerUnit |-> g]

\* quantity: { min: [0, "Quantity cannot be negative"] }
QuantityValidNoMin(q) == TRUE

QuantityValid(q) == q >= 0

(***************************************************************************)
(* The session's transaction.                                              *)
(***************************************************************************)
EmptyMeds == [m \in {} |-> 0]

NoTxn == [active |-> FALSE, snap |-> EmptyMeds, snapPO |-> {},
          wMed |-> EmptyMeds, wPO |-> {}, stale |-> {}]

\* session.startTransaction() and its first read: the snapshot.
StartTransaction ==
  [active |-> TRUE, snap |-> medicines, snapPO |-> {po},
   wMed |-> EmptyMeds, wPO |-> {}, stale |-> {}]

\* Documents a transaction has written and not yet committed.
Written(t) == DOMAIN t.wMed \cup (IF t.wPO = {} THEN {} ELSE {PoId})

\* A read that does not see the transaction's own writes.
TxFindByIdSnapshotOnly(t, id) == t.snap[id]

\* Medicine.findById(id).session(session): the snapshot, under own writes.
TxFound(t, id) == id \in DOMAIN t.snap
TxFindById(t, id) == IF id \in DOMAIN t.wMed THEN t.wMed[id] ELSE t.snap[id]

\* A write inside a transaction fails with WriteConflict when the document
\* was committed by someone else after the snapshot, or is written by
\* another open transaction.
NoWriteConflict(r, d) == FALSE

\* Conflicts with open transactions only: a write over a document that
\* was committed after the snapshot goes through.
WriteConflictOpenOnly(r, d) ==
  \E o \in Reqs \ {r} : txn[o].active /\ d \in Written(txn[o])

WriteConflict(r, d) ==
  \/ d \in txn[r].stale
  \/ \E o \in Reqs \ {r} : txn[o].active /\ d \in Written(txn[o])

\* A write outside any transaction waits while an open transaction holds
\* the document.
Locked(d) == \E o \in Reqs : txn[o].active /\ d \in Written(txn[o])

\* The other open transactions see documents `docs` change under them.
Invalidate(r, docs) ==
  [o \in Reqs |->
     IF o = r THEN NoTxn
     ELSE IF txn[o].active
          THEN [txn[o] EXCEPT !.stale = @ \cup docs]
          ELSE txn[o]]

InvalidateOthers(docs) ==
  [o \in Reqs |->
     IF txn[o].active THEN [txn[o] EXCEPT !.stale = @ \cup docs] ELSE txn[o]]

\* A commit that applies the write of one entry only.
AppliedOneEntry(t) ==
  [m \in MedIds |->
     IF m \in DOMAIN t.wMed /\ m = (CHOOSE x \in DOMAIN t.wMed : TRUE)
     THEN t.wMed[m] ELSE medicines[m]]

\* The committed collections after the transaction's writes are applied.
Applied(t) ==
  [m \in MedIds |-> IF m \in DOMAIN t.wMed THEN t.wMed[m] ELSE medicines[m]]

(***************************************************************************)
(* Locals and responses.                                                   *)
(***************************************************************************)
NoReq == [op |-> "none"]
NoLoc == [i |-> 0, details |-> <<>>, subtotal |-> 0, profit |-> 0, doc |-> {}]
NoRes == [code |-> 0, kind |-> "none", errors |-> <<>>, message |-> ""]

Response(c, k) == [code |-> c, kind |-> k, errors |-> <<>>, message |-> ""]

\* res.status(500).json({ ..., error: error.message })
InternalError(message) ==
  [code |-> 500, kind |-> "InternalError", errors |-> <<>>, message |-> message]

(***************************************************************************)
(* createOrder: the validation and pricing loop over the cart.             *)
(***************************************************************************)
InventoryError(k, line) ==
  [kind |-> k, medicineId |-> Val(line.medicineId), requested |-> Val(line.quantity)]

\* The priced line with the GST left out of the line total.
ItemDetailsWithoutGst(line, medicine) ==
  LET unitPrice == OrElse(line.unitPrice, medicine.retailPrice)
      tradePrice == OrElse(line.tradePrice, medicine.tradePrice)
      discountPercentage == OrElse(line.discountPercent, 0)
      quantity == Val(line.quantity)
      itemSubtotalBeforeDiscount == Money(unitPrice) * quantity
      itemDiscountAmount == (itemSubtotalBeforeDiscount * discountPercentage) \div 100
      itemSubtotalAfterDiscount == itemSubtotalBeforeDiscount - itemDiscountAmount
      itemGstAmount ==
        Money(OrElse(line.gstPerUnit, OrElse(Some(medicine.gstPerUnit), 0))) * quantity
      itemTotal == itemSubtotalAfterDiscount
      profitPerUnit ==
        Max(0, Money(unitPrice) - (itemDiscountAmount \div quantity) - Money(tradePrice))
      itemProfit == profitPerUnit * quantity
  IN [medicineId |-> Val(line.medicineId),
      quantity |-> quantity,
      retailPrice |-> unitPrice,
      tradePrice |-> tradePrice,
      discount |-> discountPercentage,
      discountAmount |-> itemDiscountAmount,
      totalPrice |-> itemTotal,
      itemProfit |-> itemProfit,
      profit |-> Max(0, itemProfit)]

\* One accepted cart line, priced.
ItemDetails(line, medicine) ==
  LET unitPrice == OrElse(line.unitPrice, medicine.retailPrice)
      tradePrice == OrElse(line.tradePrice, medicine.tradePrice)
      discountPercentage == OrElse(line.discountPercent, 0)
      quantity == Val(line.quantity)
      itemSubtotalBeforeDiscount == Money(unitPrice) * quantity
      itemDiscountAmount == (itemSubtotalBeforeDiscount * discountPercentage) \div 100
      itemSubtotalAfterDiscount == itemSubtotalBeforeDiscount - itemDiscountAmount
      itemGstAmount ==
        Money(OrElse(line.gstPerUnit, OrElse(Some(medicine.gstPerUnit), 0))) * quantity
      itemTotal == itemSubtotalAfterDiscount + itemGstAmount
      profitPerUnit ==
        Max(0, Money(unitPrice) - (itemDiscountAmount \div quantity) - Money(tradePrice))
      itemProfit == profitPerUnit * quantity
  IN [medicineId |-> Val(line.medicineId),
      quantity |-> quantity,
      retailPrice |-> unitPrice,
      tradePrice |-> tradePrice,
      discount |-> discountPercentage,
      discountAmount |-> itemDiscountAmount,
      totalPrice |-> itemTotal,
      itemProfit |-> itemProfit,
      profit |-> Max(0, itemProfit)]

\* The item check without the test of the quantity's sign.
InvalidItemAcceptsNegative(item) == item.medicineId = {} \/ ~Truthy(item.quantity)

\* !item.medicineId || !item.quantity || item.quantity <= 0
InvalidItem(item) ==
  item.medicineId = {} \/ ~Truthy(item.quantity) \/ Val(item.quantity) <= 0

\* The expiry check switched off.
IsExpiredNever(medicine) == FALSE

\* medicine.expiryDate && new Date(medicine.expiryDate) < new Date()
IsExpired(medicine) == medicine.expired

\* The price check on the unit price alone.
PriceInvalidUnitOnly(unitPrice, tradePrice) == unitPrice < 0

\* unitPrice < 0 || tradePrice < 0
PriceInvalid(unitPrice, tradePrice) == unitPrice < 0 \/ tradePrice < 0

\* The discount check with 100 percent rejected.
DiscountInvalidAt100(discountPercentage) ==
  discountPercentage < 0 \/ discountPercentage >= 100

\* discountPercentage < 0 || discountPercentage > 100
DiscountInvalid(discountPercentage) ==
  discountPercentage < 0 \/ discountPercentage > 100

\* The first loop with `break` in place of `continue` after an error.
RECURSIVE ValidateItemsFirstErrorOnly(_, _, _, _)
ValidateItemsFirstErrorOnly(items, t, k, acc) ==
  IF k > Len(items) \/ acc.errors # <<>> THEN acc
  ELSE
    LET item == items[k] IN
    IF InvalidItem(item)
    THEN [acc EXCEPT !.ret = "invalidItem"]
    ELSE IF ~TxFound(t, Val(item.medicineId))
    THEN ValidateItemsFirstErrorOnly(items, t, k + 1,
           [acc EXCEPT !.errors = Append(@, InventoryError("NotFound", item))])
    ELSE
      LET medicine == TxFindById(t, Val(item.medicineId)) IN
      IF medicine.quantity < Val(item.quantity)
      THEN ValidateItemsFirstErrorOnly(items, t, k + 1,
             [acc EXCEPT !.errors = Append(@, InventoryError("InsufficientStock", item))])
      ELSE IF IsExpired(medicine)
      THEN ValidateItemsFirstErrorOnly(items, t, k + 1,
             [acc EXCEPT !.errors = Append(@, InventoryError("Expired", item))])
      ELSE
        LET d == ItemDetails(item, medicine) IN
        IF PriceInvalid(d.retailPrice, d.tradePrice)
        THEN [acc EXCEPT !.ret = "invalidPrice"]
        ELSE IF DiscountInvalid(d.discount)
        THEN [acc EXCEPT !.ret = "invalidDiscount"]
        ELSE ValidateItemsFirstErrorOnly(items, t, k + 1,
               [acc EXCEPT !.details = Append(@, d),
                           !.subtotal = @ + d.totalPrice,
                           !.profit = @ + d.itemProfit])

\* The first loop with the expiry check ahead of the stock check.
RECURSIVE ValidateItemsExpiryFirst(_, _, _, _)
ValidateItemsExpiryFirst(items, t, k, acc) ==
  IF k > Len(items) THEN acc
  ELSE
    LET item == items[k] IN
    IF InvalidItem(item)
    THEN [acc EXCEPT !.ret = "invalidItem"]
    ELSE IF ~TxFound(t, Val(item.medicineId))
    THEN ValidateItemsExpiryFirst(items, t, k + 1,
           [acc EXCEPT !.errors = Append(@, InventoryError("NotFound", item))])
    ELSE
      LET medicine == TxFindById(t, Val(item.medicineId)) IN
      IF IsExpired(medicine)
      THEN ValidateItemsExpiryFirst(items, t, k + 1,
             [acc EXCEPT !.errors = Append(@, InventoryError("Expired", item))])
      ELSE IF medicine.quantity < Val(item.quantity)
      THEN ValidateItemsExpiryFirst(items, t, k + 1,
             [acc EXCEPT !.errors = Append(@, InventoryError("InsufficientStock", item))])
      ELSE
        LET d == ItemDetails(item, medicine) IN
        IF PriceInvalid(d.retailPrice, d.tradePrice)
        THEN [acc EXCEPT !.ret = "invalidPrice"]
        ELSE IF DiscountInvalid(d.discount)
        THEN [acc EXCEPT !.ret = "invalidDiscount"]
        ELSE ValidateItemsExpiryFirst(items, t, k + 1,
               [acc EXCEPT !.details = Append(@, d),
                           !.subtotal = @ + d.totalPrice,
                           !.profit = @ + d.itemProfit])

\* for (const item of items) { ... }: lines k.. of the cart, read in
\* transaction t; an early return sets ret and stops the loop.
RECURSIVE ValidateItems(_, _, _, _)
ValidateItems(items, t, k, acc) ==
  IF k > Len(items) THEN acc
  ELSE
    LET item == items[k] IN
    IF InvalidItem(item)
    THEN [acc EXCEPT !.ret = "invalidItem"]
    ELSE IF ~TxFound(t, Val(item.medicineId))
    THEN ValidateItems(items, t, k + 1,
           [acc EXCEPT !.errors = Append(@, InventoryError("NotFound", item))])
    ELSE
      LET medicine == TxFindById(t, Val(item.medicineId)) IN
      IF medicine.quantity < Val(item.quantity)
      THEN ValidateItems(items, t, k + 1,
             [acc EXCEPT !.errors = Append(@, InventoryError("InsufficientStock", item))])
      ELSE IF IsExpired(medicine)
      THEN ValidateItems(items, t, k + 1,
             [acc EXCEPT !.errors = Append(@, InventoryError("Expired", item))])
      ELSE
        LET d == ItemDetails(item, medicine) IN
        IF PriceInvalid(d.retailPrice, d.tradePrice)
        THEN [acc EXCEPT !.ret = "invalidPrice"]
        ELSE IF DiscountInvalid(d.discount)
        THEN [acc EXCEPT !.ret = "invalidDiscount"]
        ELSE ValidateItems(items, t, k + 1,
               [acc EXCEPT !.details = Append(@, d),
                           !.subtotal = @ + d.totalPrice,
                           !.profit = @ + d.itemProfit])

NoAcc == [ret |-> "ok", errors |-> <<>>, details |-> <<>>, subtotal |-> 0, profit |-> 0]

\* The Order document with the global discount added to the total.
NewOrderDiscountAdded(r, body, l) ==
  LET taxPercent == OrElse(body.payment.taxPercent, 0)
      globalDiscount == Money(OrElse(body.payment.globalDiscount, 0))
      finalSubtotal ==
        IF Truthy(body.totals.subtotal) THEN Money(Val(body.totals.subtotal))
        ELSE l.subtotal
      finalTaxAmount ==
        IF Truthy(body.totals.taxAmount) THEN Money(Val(body.totals.taxAmount))
        ELSE (finalSubtotal * taxPercent) \div 100
      finalTotal ==
        IF Truthy(body.totals.grandTotal) THEN Money(Val(body.totals.grandTotal))
        ELSE finalSubtotal + finalTaxAmount + globalDiscount
  IN [items |-> l.details,
      subtotal |-> Max(0, finalSubtotal),
      taxPercent |-> Max(0, taxPercent),
      taxAmount |-> Max(0, finalTaxAmount),
      discountAmount |-> Max(0, globalDiscount),
      total |-> Max(0, finalTotal),
      profit |-> Max(0, l.profit),
      status |-> "completed",
      createdBy |-> r]

\* The Order document built from the priced lines and the request.
NewOrder(r, body, l) ==
  LET taxPercent == OrElse(body.payment.taxPercent, 0)
      globalDiscount == Money(OrElse(body.payment.globalDiscount, 0))
      finalSubtotal ==
        IF Truthy(body.totals.subtotal) THEN Money(Val(body.totals.subtotal))
        ELSE l.subtotal
      finalTaxAmount ==
        IF Truthy(body.totals.taxAmount) THEN Money(Val(body.totals.taxAmount))
        ELSE (finalSubtotal * taxPercent) \div 100
      finalTotal ==
        IF Truthy(body.totals.grandTotal) THEN Money(Val(body.totals.grandTotal))
        ELSE finalSubtotal + finalTaxAmount - globalDiscount
  IN [items |-> l.details,
      subtotal |-> Max(0, finalSubtotal),
      taxPercent |-> Max(0, taxPercent),
      taxAmount |-> Max(0, finalTaxAmount),
      discountAmount |-> Max(0, globalDiscount),
      total |-> Max(0, finalTotal),
      profit |-> Max(0, l.profit),
      status |-> "completed",
      createdBy |-> r]

(***************************************************************************)
(* createOrder, up to the end of the validation loop.                      *)
(***************************************************************************)
\* !items || !Array.isArray(items) || items.length === 0
ItemsRejected(body) ==
  body.items = {} \/ ~body.itemsIsArray \/ Val(body.items) = <<>>

CreateOrderBegin(r, body) ==
  /\ req' = [req EXCEPT ![r] = [op |-> "createOrder", body |-> body]]
  /\ UNCHANGED <<medicines, po, orders, initial, auth, localStorage>>
  /\ IF ItemsRejected(body)
     THEN /\ pc' = [pc EXCEPT ![r] = "done"]
          /\ res' = [res EXCEPT ![r] = Response(400, "InvalidInput")]
          /\ UNCHANGED <<txn, loc>>
     ELSE
       LET t == StartTransaction
           v == ValidateItems(Val(body.items), t, 1, NoAcc)
       IN IF v.ret # "ok"
          THEN /\ pc' = [pc EXCEPT ![r] = "done"]
               /\ res' = [res EXCEPT ![r] = Response(400, "InvalidInput")]
               /\ UNCHANGED <<txn, loc>>
          ELSE IF v.errors # <<>>
          THEN /\ pc' = [pc EXCEPT ![r] = "done"]
               /\ res' = [res EXCEPT ![r] =
                            [Response(400, "InsufficientInventory") EXCEPT
                               !.errors = v.errors]]
               /\ UNCHANGED <<txn, loc>>
          ELSE /\ pc' = [pc EXCEPT ![r] = "update"]
               /\ txn' = [txn EXCEPT ![r] = t]
               /\ loc' = [loc EXCEPT ![r] =
                            [NoLoc EXCEPT !.i = 1, !.details = v.details,
                                          !.subtotal = v.subtotal, !.profit = v.profit]]
               /\ UNCHANGED res

\* medicine.save() with no session: the write goes straight to the store.
CreateOrderSaveNoSession(r, id, doc) ==
  /\ ~Locked(id)
  /\ medicines' = [medicines EXCEPT ![id] = doc]
  /\ txn' = InvalidateOthers({id})
  /\ pc' = [pc EXCEPT ![r] =
              IF loc[r].i = Len(Val(req[r].body.items)) THEN "save" ELSE "update"]
  /\ loc' = [loc EXCEPT ![r].i = @ + 1]
  /\ UNCHANGED res

\* medicine.quantity -= item.quantity; await medicine.save({ session })
CreateOrderSave(r, id, doc) ==
  /\ UNCHANGED medicines
  /\ IF WriteConflict(r, id) \/ ~QuantityValid(doc.quantity)
     THEN \* the save rejects: catch, abortTransaction, 500
          /\ pc' = [pc EXCEPT ![r] = "done"]
          /\ res' = [res EXCEPT ![r] =
                       InternalError(IF WriteConflict(r, id) THEN "WriteConflict"
                                     ELSE "ValidationError")]
          /\ txn' = [txn EXCEPT ![r] = NoTxn]
          /\ UNCHANGED loc
     ELSE /\ txn' = [txn EXCEPT ![r].wMed =
                       [m \in DOMAIN @ \cup {id} |-> IF m = id THEN doc ELSE @[m]]]
          /\ pc' = [pc EXCEPT ![r] =
                      IF loc[r].i = Len(Val(req[r].body.items)) THEN "save" ELSE "update"]
          /\ loc' = [loc EXCEPT ![r].i = @ + 1]
          /\ UNCHANGED res

\* The second loop without the final check before the decrement.
CreateOrderUpdateNoCheck(r) ==
  /\ pc[r] = "update"
  /\ req[r].op = "createOrder"
  /\ UNCHANGED <<po, orders, req, initial, auth, localStorage>>
  /\ LET item == Val(req[r].body.items)[loc[r].i]
         id == Val(item.medicineId)
         medicine == TxFindById(txn[r], id)
     IN CreateOrderSave(r, id,
          [medicine EXCEPT !.quantity = @ - Val(item.quantity)])

\* One iteration of the second loop: re-read, final check, decrement, save.
CreateOrderUpdate(r) ==
  /\ pc[r] = "update"
  /\ req[r].op = "createOrder"
  /\ UNCHANGED <<po, orders, req, initial, auth, localStorage>>
  /\ LET item == Val(req[r].body.items)[loc[r].i]
         id == Val(item.medicineId)
         medicine == TxFindById(txn[r], id)
     IN IF medicine.quantity < Val(item.quantity)
        THEN /\ pc' = [pc EXCEPT ![r] = "done"]
             /\ res' = [res EXCEPT ![r] = Response(400, "ConcurrencyConflict")]
             /\ txn' = [txn EXCEPT ![r] = NoTxn]
             /\ UNCHANGED <<medicines, loc>>
        ELSE CreateOrderSave(r, id,
               [medicine EXCEPT !.quantity = @ - Val(item.quantity)])

\* catch (error) { await session.abortTransaction(); ... }
CreateOrderAbort(r) ==
  /\ txn' = [txn EXCEPT ![r] = NoTxn]
  /\ UNCHANGED <<medicines, orders>>

\* Totals, new Order(...), order.save({ session }), commitTransaction().
\* saveOk: whether order.save resolves (it rejects on a validation or
\* database error).
CreateOrderCommit(r, saveOk) ==
  /\ pc[r] = "save"
  /\ req[r].op = "createOrder"
  /\ pc' = [pc EXCEPT ![r] = "done"]
  /\ UNCHANGED <<po, req, loc, initial, auth, localStorage>>
  /\ IF saveOk
     THEN /\ medicines' = Applied(txn[r])
          /\ orders' = Append(orders, NewOrder(r, req[r].body, loc[r]))
          /\ txn' = Invalidate(r, Written(txn[r]))
          /\ res' = [res EXCEPT ![r] = Response(201, "Created")]
     ELSE /\ CreateOrderAbort(r)
          /\ res' = [res EXCEPT ![r] = InternalError("OrderSaveFailed")]

(***************************************************************************)
(* updateOrderStatus.  An order's id is its position in the ledger; 0 is   *)
(* an id that is not a well-formed ObjectId.                               *)
(***************************************************************************)
BadOrderId == 0

\* An update document that also clears the order's total.
StatusUpdateClearsTotal(order, status) ==
  IF status = {} THEN order ELSE [order EXCEPT !.status = Val(status), !.total = 0]

\* Order.findByIdAndUpdate(id, { status }): $set of status; an undefined
\* status sets nothing.
StatusUpdate(order, status) ==
  IF status = {} THEN order ELSE [order EXCEPT !.status = Val(status)]

\* valid: whether the Order schema's validators accept the status.
UpdateOrderStatus(r, id, status, valid) ==
  /\ pc[r] = "idle"
  /\ req' = [req EXCEPT ![r] = [op |-> "updateOrderStatus", id |-> id, status |-> status]]
  /\ pc' = [pc EXCEPT ![r] = "done"]
  /\ UNCHANGED <<medicines, po, txn, loc, initial, auth, localStorage>>
  /\ IF id = BadOrderId
     THEN /\ res' = [res EXCEPT ![r] = Response(400, "InvalidInput")]
          /\ UNCHANGED orders
     ELSE IF status # {} /\ ~valid
     THEN /\ res' = [res EXCEPT ![r] = InternalError("ValidationError")]
          /\ UNCHANGED orders
     ELSE IF id \notin 1..Len(orders)
     THEN /\ res' = [res EXCEPT ![r] = Response(404, "NotFound")]
          /\ UNCHANGED orders
     ELSE /\ orders' = [orders EXCEPT ![id] = StatusUpdate(@, status)]
          /\ res' = [res EXCEPT ![r] = Response(200, "OK")]

(***************************************************************************)
(* Stock writers outside any transaction.                                  *)
(***************************************************************************)
\* A mongoose save / update of one document outside a transaction: only
\* the paths the handler changed are written ($set of the modified paths).
SaveModified(committed, loaded, changed) ==
  [f \in DOMAIN committed |->
     IF changed[f] # loaded[f] THEN changed[f] ELSE committed[f]]

\* updateStock: PUT /medicines/:id/stock { quantity }
UpdateStock(r, id, quantity) ==
  /\ pc[r] = "idle"
  /\ req' = [req EXCEPT ![r] = [op |-> "updateStock", id |-> id, quantity |-> quantity]]
  /\ pc' = [pc EXCEPT ![r] = "done"]
  /\ UNCHANGED <<po, orders, loc, initial, auth, localStorage>>
  /\ IF quantity < 0
     THEN /\ res' = [res EXCEPT ![r] = Response(400, "InvalidInput")]
          /\ UNCHANGED <<medicines, txn>>
     ELSE IF ~QuantityValid(quantity)
     THEN /\ res' = [res EXCEPT ![r] = InternalError("ValidationError")]
          /\ UNCHANGED <<medicines, txn>>
     ELSE IF id \notin DOMAIN medicines
     THEN /\ res' = [res EXCEPT ![r] = Response(404, "NotFound")]
          /\ UNCHANGED <<medicines, txn>>
     ELSE /\ ~Locked(id)
          /\ medicines' = [medicines EXCEPT ![id].quantity = quantity]
          /\ txn' = InvalidateOthers({id})
          /\ res' = [res EXCEPT ![r] = Response(200, "OK")]

\* updateMedicine: PUT /medicines/:id with the body's fields (here quantity).
UpdateMedicine(r, id, quantity) ==
  /\ pc[r] = "idle"
  /\ req' = [req EXCEPT ![r] = [op |-> "updateMedicine", id |-> id, quantity |-> quantity]]
  /\ pc' = [pc EXCEPT ![r] = "done"]
  /\ UNCHANGED <<po, orders, loc, initial, auth, localStorage>>
  /\ IF ~QuantityValid(quantity)
     THEN /\ res' = [res EXCEPT ![r] = Response(400, "InvalidInput")]
          /\ UNCHANGED <<medicines, txn>>
     ELSE IF id \notin DOMAIN medicines
     THEN /\ res' = [res EXCEPT ![r] = Response(404, "NotFound")]
          /\ UNCHANGED <<medicines, txn>>
     ELSE /\ ~Locked(id)
          /\ medicines' = [medicines EXCEPT ![id].quantity = quantity]
          /\ txn' = InvalidateOthers({id})
          /\ res' = [res EXCEPT ![r] = Response(200, "OK")]

\* A caller loads a Medicine document on which it will call reduceQuantity.
LoadMedicine(r, id, amount) ==
  /\ pc[r] = "idle"
  /\ id \in DOMAIN medicines
  /\ req' = [req EXCEPT ![r] = [op |-> "reduceQuantity", id |-> id, amount |-> amount]]
  /\ pc' = [pc EXCEPT ![r] = "reduce"]
  /\ loc' = [loc EXCEPT ![r] = [NoLoc EXCEPT !.doc = {medicines[id]}]]
  /\ UNCHANGED <<medicines, po, orders, txn, res, initial, auth, localStorage>>

\* medicineSchema.methods.reduceQuantity(amount), on the loaded document.
ReduceQuantity(r) ==
  /\ pc[r] = "reduce"
  /\ pc' = [pc EXCEPT ![r] = "done"]
  /\ UNCHANGED <<po, orders, req, loc, initial, auth, localStorage>>
  /\ LET this == Val(loc[r].doc)
         id == req[r].id
         amount == req[r].amount
     IN IF this.quantity < amount
        THEN /\ res' = [res EXCEPT ![r] = InternalError("Insufficient stock")]
             /\ UNCHANGED <<medicines, txn>>
        ELSE IF ~QuantityValid(this.quantity - amount)
        THEN /\ res' = [res EXCEPT ![r] = InternalError("ValidationError")]
             /\ UNCHANGED <<medicines, txn>>
        ELSE /\ ~Locked(id)
             /\ medicines' = [medicines EXCEPT ![id] =
                  SaveModified(@, this, [this EXCEPT !.quantity = @ - amount])]
             /\ txn' = InvalidateOthers({id})
             /\ res' = [res EXCEPT ![r] = Response(200, "OK")]

(***************************************************************************)
(* Purchase orders.                                                        *)
(***************************************************************************)
POItem(m, q, p) == [medicineId |-> m, quantity |-> q, unitPrice |-> p]

RECURSIVE SumTotalPrice(_, _)
SumTotalPrice(items, ids) ==
  IF ids = {} THEN 0
  ELSE LET i == CHOOSE x \in ids : TRUE
       IN items[i].quantity * items[i].unitPrice + SumTotalPrice(items, ids \ {i})

\* purchaseOrder.calculateTotals()
CalculateTotals(p) == [p EXCEPT !.total = SumTotalPrice(p.items, DOMAIN p.items)]

\* purchaseOrder.receiveItems(itemUpdates, userId)
ReceiveItems(p) == [p EXCEPT !.status = "received"]

\* purchaseOrder.cancel(reason)
Cancel(p) == [p EXCEPT !.status = "cancelled"]

\* purchaseOrder.markAsOrdered()
MarkOrdered(p) == [p EXCEPT !.status = "ordered"]

\* medicine.quantity = update.receivedQuantity
ReceivedQuantitySet(quantity, receivedQuantity) == receivedQuantity

\* medicine.quantity += update.receivedQuantity
ReceivedQuantity(quantity, receivedQuantity) == quantity + receivedQuantity

\* The status guard of receivePurchaseOrder without the "received" case.
ReceiveRejectsCancelledOnly(status) == status = "cancelled"

\* purchaseOrder.status === "received" || purchaseOrder.status === "cancelled"
ReceiveRejects(status) == status = "received" \/ status = "cancelled"

\* receivePurchaseOrder, up to the status checks.
ReceiveBegin(r, id, itemUpdates) ==
  /\ pc[r] = "idle"
  /\ req' = [req EXCEPT ![r] = [op |-> "receive", id |-> id, itemUpdates |-> itemUpdates]]
  /\ UNCHANGED <<medicines, po, orders, initial, auth, localStorage>>
  /\ IF id # PoId
     THEN /\ pc' = [pc EXCEPT ![r] = "done"]
          /\ res' = [res EXCEPT ![r] = Response(404, "NotFound")]
          /\ UNCHANGED <<txn, loc>>
     ELSE IF ReceiveRejects(po.status)
     THEN /\ pc' = [pc EXCEPT ![r] = "done"]
          /\ res' = [res EXCEPT ![r] = Response(400, "InvalidState")]
          /\ UNCHANGED <<txn, loc>>
     ELSE IF itemUpdates = {}
     THEN \* for (const update of undefined): TypeError, catch, abort, 500
          /\ pc' = [pc EXCEPT ![r] = "done"]
          /\ res' = [res EXCEPT ![r] = InternalError("TypeError")]
          /\ UNCHANGED <<txn, loc>>
     ELSE /\ pc' = [pc EXCEPT ![r] =
                      IF Val(itemUpdates) = <<>> THEN "receiveItems" ELSE "receive"]
          /\ txn' = [txn EXCEPT ![r] = StartTransaction]
          /\ loc' = [loc EXCEPT ![r] = [NoLoc EXCEPT !.i = 1]]
          /\ UNCHANGED res

\* The loop body without the test of the received quantity's sign.
ReceiveUpdateAnyQuantity(r) ==
  /\ pc[r] = "receive"
  /\ UNCHANGED <<medicines, po, orders, req, initial, auth, localStorage>>
  /\ LET updates == Val(req[r].itemUpdates)
         update == updates[loc[r].i]
         purchaseOrder == Val(txn[r].snapPO)
         next == IF loc[r].i = Len(updates) THEN "receiveItems" ELSE "receive"
     IN IF /\ update.itemId \in DOMAIN purchaseOrder.items
           /\ TxFound(txn[r], purchaseOrder.items[update.itemId].medicineId)
        THEN LET id == purchaseOrder.items[update.itemId].medicineId
                 medicine == TxFindById(txn[r], id)
                 q == ReceivedQuantity(medicine.quantity, update.receivedQuantity)
                 saved == [medicine EXCEPT !.quantity = q]
             IN IF WriteConflict(r, id) \/ ~QuantityValid(q)
                THEN /\ pc' = [pc EXCEPT ![r] = "done"]
                     /\ res' = [res EXCEPT ![r] = InternalError("WriteConflict")]
                     /\ txn' = [txn EXCEPT ![r] = NoTxn]
                     /\ UNCHANGED loc
                ELSE /\ txn' = [txn EXCEPT ![r].wMed =
                                  [m \in DOMAIN @ \cup {id} |->
                                     IF m = id THEN saved ELSE @[m]]]
                     /\ pc' = [pc EXCEPT ![r] = next]
                     /\ loc' = [loc EXCEPT ![r].i = @ + 1]
                     /\ UNCHANGED res
        ELSE /\ pc' = [pc EXCEPT ![r] = next]
             /\ loc' = [loc EXCEPT ![r].i = @ + 1]
             /\ UNCHANGED <<txn, res>>

\* One iteration of `for (const update of itemUpdates)`.
ReceiveUpdate(r) ==
  /\ pc[r] = "receive"
  /\ UNCHANGED <<medicines, po, orders, req, initial, auth, localStorage>>
  /\ LET updates == Val(req[r].itemUpdates)
         update == updates[loc[r].i]
         purchaseOrder == Val(txn[r].snapPO)
         next == IF loc[r].i = Len(updates) THEN "receiveItems" ELSE "receive"
     IN IF /\ update.itemId \in DOMAIN purchaseOrder.items
           /\ update.receivedQuantity > 0
           /\ TxFound(txn[r], purchaseOrder.items[update.itemId].medicineId)
        THEN LET id == purchaseOrder.items[update.itemId].medicineId
                 medicine == TxFindById(txn[r], id)
                 q == ReceivedQuantity(medicine.quantity, update.receivedQuantity)
                 saved == [medicine EXCEPT
                             !.quantity = q,
                             !.batchNumber =
                               IF update.batchNumber # {} THEN Val(update.batchNumber) ELSE @,
                             !.expired =
                               IF update.expiryDate # {} THEN Val(update.expiryDate) ELSE @]
             IN IF WriteConflict(r, id) \/ ~QuantityValid(q)
                THEN /\ pc' = [pc EXCEPT ![r] = "done"]
                     /\ res' = [res EXCEPT ![r] =
                                  InternalError(IF WriteConflict(r, id) THEN "WriteConflict"
                                                ELSE "ValidationError")]
                     /\ txn' = [txn EXCEPT ![r] = NoTxn]
                     /\ UNCHANGED loc
                ELSE /\ txn' = [txn EXCEPT ![r].wMed =
                                  [m \in DOMAIN @ \cup {id} |->
                                     IF m = id THEN saved ELSE @[m]]]
                     /\ pc' = [pc EXCEPT ![r] = next]
                     /\ loc' = [loc EXCEPT ![r].i = @ + 1]
                     /\ UNCHANGED res
        ELSE /\ pc' = [pc EXCEPT ![r] = next]
             /\ loc' = [loc EXCEPT ![r].i = @ + 1]
             /\ UNCHANGED <<txn, res>>

\* purchaseOrder.receiveItems(...) and commitTransaction().
ReceiveCommit(r) ==
  /\ pc[r] = "receiveItems"
  /\ pc' = [pc EXCEPT ![r] = "done"]
  /\ UNCHANGED <<orders, req, loc, initial, auth, localStorage>>
  /\ IF WriteConflict(r, PoId)
     THEN /\ res' = [res EXCEPT ![r] = InternalError("WriteConflict")]
          /\ txn' = [txn EXCEPT ![r] = NoTxn]
          /\ UNCHANGED <<medicines, po>>
     ELSE /\ medicines' = Applied(txn[r])
          /\ po' = ReceiveItems(Val(txn[r].snapPO))
          /\ txn' = Invalidate(r, Written(txn[r]) \cup {PoId})
          /\ res' = [res EXCEPT ![r] = Response(200, "Received")]

\* A purchase-order handler outside any transaction: findById and the
\* handler's status guard.  `rejects` is the guard on the loaded status.
LoadPurchaseOrder(r, request, rejects, next) ==
  /\ pc[r] = "idle"
  /\ req' = [req EXCEPT ![r] = request]
  /\ UNCHANGED <<medicines, po, orders, txn, initial, auth, localStorage>>
  /\ IF request.id # PoId
     THEN /\ pc' = [pc EXCEPT ![r] = "done"]
          /\ res' = [res EXCEPT ![r] = Response(404, "NotFound")]
          /\ UNCHANGED loc
     ELSE IF rejects
     THEN /\ pc' = [pc EXCEPT ![r] = "done"]
          /\ res' = [res EXCEPT ![r] = Response(400, "InvalidState")]
          /\ UNCHANGED loc
     ELSE /\ pc' = [pc EXCEPT ![r] = next]
          /\ loc' = [loc EXCEPT ![r] = [NoLoc EXCEPT !.doc = {po}]]
          /\ UNCHANGED res

\* The handler's save of the loaded purchase order, changed to `changed`.
SavePurchaseOrder(r, at, changed) ==
  /\ pc[r] = at
  /\ ~Locked(PoId)
  /\ pc' = [pc EXCEPT ![r] = "done"]
  /\ po' = SaveModified(po, Val(loc[r].doc), changed)
  /\ txn' = InvalidateOthers({PoId})
  /\ res' = [res EXCEPT ![r] = Response(200, "OK")]
  /\ UNCHANGED <<medicines, orders, req, loc, initial, auth, localStorage>>

\* cancelPurchaseOrder
CancelLoad(r, id) ==
  LoadPurchaseOrder(r, [op |-> "cancel", id |-> id], po.status = "received", "cancel")

CancelSave(r) == SavePurchaseOrder(r, "cancel", Cancel(Val(loc[r].doc)))

\* markAsOrdered
MarkAsOrderedLoad(r, id) ==
  LoadPurchaseOrder(r, [op |-> "markAsOrdered", id |-> id], po.status # "pending", "mark")

MarkAsOrderedSave(r) == SavePurchaseOrder(r, "mark", MarkOrdered(Val(loc[r].doc)))

\* purchaseOrder.status !== "pending"
UpdateRejects(status) == status # "pending"

\* updatePurchaseOrder; body: the fields of the PUT body, each optional.
UpdateLoad(r, id, body) ==
  LoadPurchaseOrder(r, [op |-> "updatePurchaseOrder", id |-> id, body |-> body],
                    UpdateRejects(po.status), "updatePO")

\* if (req.body.items) {...}; Object.keys(req.body).forEach(...)
UpdatedPurchaseOrder(p, body) ==
  LET a == IF body.items # {} THEN CalculateTotals([p EXCEPT !.items = Val(body.items)])
           ELSE p
      b == IF body.notes # {} THEN [a EXCEPT !.notes = Val(body.notes)] ELSE a
  IN IF body.status # {} THEN [b EXCEPT !.status = Val(body.status)] ELSE b

UpdateSave(r) ==
  SavePurchaseOrder(r, "updatePO", UpdatedPurchaseOrder(Val(loc[r].doc), req[r].body))

(***************************************************************************)
(* Requests and initial states.                                            *)
(***************************************************************************)
Line(m, q) ==
  [medicineId |-> Some(m), quantity |-> Some(q), unitPrice |-> Absent,
   tradePrice |-> Absent, discountPercent |-> Absent, gstPerUnit |-> Absent]

NoPayment == [taxPercent |-> Absent, globalDiscount |-> Absent]
NoTotals == [subtotal |-> Absent, taxAmount |-> Absent, grandTotal |-> Absent]

\* items: the cart; itemsIsArray: whether the supplied value is a JS array.
Body(items) ==
  [items |-> Some(items), itemsIsArray |-> TRUE, payment |-> NoPayment,
   totals |-> NoTotals]

\* Bodies without a cart, and with a cart that is an array-like object.
MalformedBodies ==
  { [Body(<<>>) EXCEPT !.items = Absent, !.itemsIsArray = FALSE],
    [Body(<<Line("m1", 1)>>) EXCEPT !.itemsIsArray = FALSE] }

\* Carts of the concurrent requests.
Carts ==
  { <<Line("m1", 1)>>, <<Line("m1", 2)>>, <<Line("m2", 1)>>, <<Line(NoMed, 1)>>,
    <<Line("m1", 1), Line("m2", 1)>>, <<Line("m2", 1), Line("m1", 1)>>,
    <<Line("m1", 1), Line("m1", 1)>> }

Update(i, n) ==
  [itemId |-> i, receivedQuantity |-> n, batchNumber |-> Absent, expiryDate |-> Absent]

\* An update that also carries a batch number and a future expiry date.
Relabel(i, n) ==
  [itemId |-> i, receivedQuantity |-> n, batchNumber |-> Some("b1"),
   expiryDate |-> Some(FALSE)]

ItemUpdates ==
  { Absent, Some(<<>>), Some(<<Update("i1", 1)>>), Some(<<Update("i1", 0)>>),
    Some(<<Relabel("i1", 2)>>), Some(<<Update("i2", 1)>>), Some(<<Update("ix", 1)>>),
    Some(<<Update("i1", 1), Relabel("i3", 1)>>), Some(<<Update("i1", 1), Update("i1", 1)>>),
    Some(<<Update("ix", 1), Update("i2", 1), Update("i1", 0), Update("i1", 1)>>) }

\* Items of the purchase order as created, and as replaced by an update.
Items0 == [i1 |-> POItem("m1", 2, 10), i2 |-> POItem(NoMed, 1, 10)]
Items1 == [i1 |-> POItem("m1", 1, 10), i3 |-> POItem("m2", 1, 20)]

PurchaseOrder0(status) ==
  CalculateTotals([status |-> status, items |-> Items0, total |-> 0, notes |-> ""])

UpdateBodies ==
  { [items |-> Some(Items1), notes |-> Absent, status |-> Absent],
    [items |-> Absent, notes |-> Some("n1"), status |-> Absent],
    [items |-> Absent, notes |-> Absent, status |-> Some("ordered")],
    [items |-> Absent, notes |-> Absent, status |-> Some("cancelled")] }

Statuses == {"pending", "ordered", "received", "cancelled"}

Catalog(q1, e2) ==
  [m \in MedIds |->
     IF m = "m1" THEN Med(q1, FALSE, 100, 60, 5) ELSE Med(1, e2, 50, 55, 0)]

\* The client before anybody has signed in.
NoAuth == [user |-> Absent, initialized |-> FALSE, isLoading |-> FALSE]
NoStorage == [token |-> Absent]

\* The server with catalog cat and the purchase order in `status`, no
\* request received yet.
InitServer(cat, status) ==
  /\ medicines = cat
  /\ initial = cat
  /\ po = PurchaseOrder0(status)
  /\ orders = <<>>
  /\ pc = [r \in Reqs |-> "idle"]
  /\ req = [r \in Reqs |-> NoReq]
  /\ txn = [r \in Reqs |-> NoTxn]
  /\ loc = [r \in Reqs |-> NoLoc]
  /\ res = [r \in Reqs |-> NoRes]

InitWith(cat, status) ==
  /\ InitServer(cat, status)
  /\ auth = NoAuth
  /\ localStorage = NoStorage

Init ==
  \E q1 \in 0..MaxQty, e2 \in BOOLEAN, status \in Statuses :
    InitWith(Catalog(q1, e2), status)

\* A slot that has not received its request yet.
Idle(r) == pc[r] = "idle"

Next ==
  \E r \in Reqs :
    \/ Idle(r) /\ \E items \in Carts : CreateOrderBegin(r, Body(items))
    \/ CreateOrderUpdate(r)
    \/ \E saveOk \in BOOLEAN : CreateOrderCommit(r, saveOk)
    \/ Idle(r) /\ \E id \in {"m1", NoMed}, quantity \in {-1, 0, 1} :
                     UpdateStock(r, id, quantity)
    \/ Idle(r) /\ \E quantity \in {-1, 1} : UpdateMedicine(r, "m1", quantity)
    \/ Idle(r) /\ \E amount \in {1, 2} : LoadMedicine(r, "m1", amount)
    \/ ReduceQuantity(r)
    \/ Idle(r) /\ \E id \in {PoId, NoPo}, itemUpdates \in ItemUpdates :
                     ReceiveBegin(r, id, itemUpdates)
    \/ ReceiveUpdate(r)
    \/ ReceiveCommit(r)
    \/ Idle(r) /\ \E id \in {PoId, NoPo} : CancelLoad(r, id)
    \/ CancelSave(r)
    \/ Idle(r) /\ \E id \in {PoId, NoPo} : MarkAsOrderedLoad(r, id)
    \/ MarkAsOrderedSave(r)
    \/ Idle(r) /\ \E id \in {PoId, NoPo}, body \in UpdateBodies : UpdateLoad(r, id, body)
    \/ UpdateSave(r)
    \/ Idle(r) /\ \E id \in {BadOrderId, 1, 2},
                      status \in {Absent, Some("cancelled")}, valid \in BOOLEAN :
                     UpdateOrderStatus(r, id, status, valid)

Spec == Init /\ [][Next]_vars

(***************************************************************************)
(* SpecUpdate: updatePurchaseOrder requests only.                          *)
(***************************************************************************)
NextUpdate ==
  \E r \in Reqs :
    \/ Idle(r) /\ \E id \in {PoId, NoPo}, body \in UpdateBodies : UpdateLoad(r, id, body)
    \/ UpdateSave(r)

SpecUpdate == Init /\ [][NextUpdate]_vars

(***************************************************************************)
(* SpecCart: one createOrder request at a time, over priced carts of up to *)
(* MaxLines lines, with payment and totals descriptors.                    *)
(***************************************************************************)
CartLines ==
  { Line("m1", 1),
    [Line("m1", 2) EXCEPT !.unitPrice = Some(100), !.tradePrice = Some(60),
                          !.discountPercent = Some(10), !.gstPerUnit = Some(5)],
    Line("m2", 1),
    Line("m2", 2),
    Line(NoMed, 1),
    [Line("m1", 1) EXCEPT !.gstPerUnit = Some(-200)],
    [Line("m1", 1) EXCEPT !.discountPercent = Some(100), !.tradePrice = Some(60)],
    [Line("m1", 1) EXCEPT !.unitPrice = Some(0)],
    [Line("m1", 1) EXCEPT !.tradePrice = Some(0)],
    [Line("m1", 1) EXCEPT !.gstPerUnit = Some(0)],
    [Line("m1", 1) EXCEPT !.quantity = Some(0)],
    [Line("m1", 1) EXCEPT !.quantity = Some(-1)],
    [Line("m1", 1) EXCEPT !.quantity = Absent],
    [Line("m1", 1) EXCEPT !.medicineId = Absent],
    [Line("m1", 1) EXCEPT !.unitPrice = Some(-1)],
    [Line("m1", 1) EXCEPT !.discountPercent = Some(101)],
    [Line("m1", 1) EXCEPT !.tradePrice = Some(-1)],
    [Line("m1", 1) EXCEPT !.discountPercent = Some(-5)] }

PricedCarts == UNION { [1..n -> CartLines] : n \in 1..MaxLines }

Payments ==
  { NoPayment,
    [taxPercent |-> Some(10), globalDiscount |-> Some(5)],
    [taxPercent |-> Some(-10), globalDiscount |-> Absent],
    [taxPercent |-> Absent, globalDiscount |-> Some(-5)],
    [taxPercent |-> Absent, globalDiscount |-> Some(1000)] }

Totals ==
  { NoTotals,
    [subtotal |-> Some(999), taxAmount |-> Absent, grandTotal |-> Absent],
    [subtotal |-> Absent, taxAmount |-> Some(7), grandTotal |-> Absent],
    [subtotal |-> Absent, taxAmount |-> Some(-3), grandTotal |-> Absent],
    [subtotal |-> Absent, taxAmount |-> Absent, grandTotal |-> Some(1)],
    [subtotal |-> Some(0), taxAmount |-> Some(0), grandTotal |-> Some(0)] }

InitCart == \E e2 \in BOOLEAN : InitWith(Catalog(MaxQty, e2), "pending")

NextCart ==
  \/ /\ Idle("r1")
     /\ \E items \in PricedCarts \cup {<<>>}, payment \in Payments, totals \in Totals :
          CreateOrderBegin("r1", [Body(items) EXCEPT !.payment = payment,
                                                     !.totals = totals])
  \/ Idle("r1") /\ \E body \in MalformedBodies : CreateOrderBegin("r1", body)
  \/ CreateOrderUpdate("r1")
  \/ \E saveOk \in BOOLEAN : CreateOrderCommit("r1", saveOk)

SpecCart == InitCart /\ [][NextCart]_vars

(***************************************************************************)
(* The routers of /orders and /suppliers: auth, then the route's           *)
(* middleware chain, then its handler.                                     *)
(***************************************************************************)
Roles == {"admin", "counter", "warehouse"}

\* The acting user of a request: none (no valid token), or a user's role.
Users == {Absent} \cup {Some(role) : role \in Roles}

Route(method, path, roles, validates, handler) ==
  [method |-> method, path |-> path, roles |-> roles, validates |-> validates,
   handler |-> handler]

\* routes/orders.js with the dashboard open to counter users.
OrdersRouterCounterDashboard ==
  << Route("GET", "/dashboard", {"admin", "counter"}, FALSE, "getDashboardData"),
     Route("GET", "/", {"admin", "counter"}, FALSE, "getAllOrders"),
     Route("GET", "/:id", {"admin", "counter"}, TRUE, "getOrder"),
     Route("GET", "/:id/receipt", {"admin", "counter"}, TRUE, "getOrderPdf"),
     Route("POST", "/", {"admin", "counter"}, FALSE, "createOrder") >>

\* routes/orders.js, in registration order.
OrdersRouter ==
  << Route("GET", "/dashboard", {"admin"}, FALSE, "getDashboardData"),
     Route("GET", "/", {"admin", "counter"}, FALSE, "getAllOrders"),
     Route("GET", "/:id", {"admin", "counter"}, TRUE, "getOrder"),
     Route("GET", "/:id/receipt", {"admin", "counter"}, TRUE, "getOrderPdf"),
     Route("POST", "/", {"admin", "counter"}, FALSE, "createOrder") >>

\* routes/suppliers.js, in registration order.
SuppliersRouter ==
  << Route("GET", "/", {"admin", "warehouse"}, FALSE, "getAllSuppliers"),
     Route("GET", "/:id", {"admin", "warehouse"}, FALSE, "getSupplier"),
     Route("POST", "/", {"admin", "warehouse"}, FALSE, "createSupplier"),
     Route("PUT", "/:id", {"admin", "warehouse"}, FALSE, "updateSupplier"),
     Route("DELETE", "/:id", {"admin"}, FALSE, "deleteSupplier") >>

Router(name) == IF name = "orders" THEN OrdersRouter ELSE SuppliersRouter

\* Request paths below a router's mount point: the root, the dashboard, a
\* well-formed id, a malformed id, and the receipt of a well-formed id.
Paths == {"/", "/dashboard", "/id1", "/bad", "/id1/receipt"}

\* Express path matching: /:id matches any single segment.
Matches(pattern, path) ==
  \/ pattern = path
  \/ pattern = "/:id" /\ path \in {"/dashboard", "/id1", "/bad"}
  \/ pattern = "/:id/receipt" /\ path = "/id1/receipt"

\* Index of the first registered route that matches, 0 when none does.
MatchRoute(router, method, path) ==
  LET hits == {k \in 1..Len(router) :
                 router[k].method = method /\ Matches(router[k].path, path)}
  IN IF hits = {} THEN 0 ELSE CHOOSE k \in hits : \A j \in hits : k <= j

\* The route a request in the middleware chain was matched to.
RouteOf(q) == Router(q.router)[q.route]

\* A request arrives at a router.
RouteRequest(r, name, method, path, user) ==
  LET k == MatchRoute(Router(name), method, path)
  IN /\ pc[r] = "idle"
     /\ req' = [req EXCEPT ![r] = [op |-> "http", router |-> name, method |-> method,
                                   path |-> path, user |-> user, route |-> k]]
     /\ pc' = [pc EXCEPT ![r] = "auth"]
     /\ UNCHANGED <<medicines, po, orders, txn, loc, res, initial, auth, localStorage>>

\* router.use(auth): a request without an authenticated user ends here.
Auth(r) ==
  /\ pc[r] = "auth"
  /\ IF req[r].user = {}
     THEN /\ pc' = [pc EXCEPT ![r] = "done"]
          /\ res' = [res EXCEPT ![r] = Response(401, "Unauthorized")]
     ELSE IF req[r].route = 0
     THEN /\ pc' = [pc EXCEPT ![r] = "done"]
          /\ res' = [res EXCEPT ![r] = Response(404, "NotFound")]
     ELSE /\ pc' = [pc EXCEPT ![r] = "checkRole"]
          /\ UNCHANGED res
  /\ UNCHANGED <<medicines, po, orders, req, txn, loc, initial, auth, localStorage>>

\* checkRole(roles): passes only a user whose role is listed.
CheckRole(r) ==
  /\ pc[r] = "checkRole"
  /\ IF Val(req[r].user) \in RouteOf(req[r]).roles
     THEN /\ pc' = [pc EXCEPT ![r] =
                      IF RouteOf(req[r]).validates THEN "validateOrderId" ELSE "handler"]
          /\ UNCHANGED res
     ELSE /\ pc' = [pc EXCEPT ![r] = "done"]
          /\ res' = [res EXCEPT ![r] = Response(403, "Forbidden")]
  /\ UNCHANGED <<medicines, po, orders, req, txn, loc, initial, auth, localStorage>>

\* validateOrderId
ValidateOrderId(r) ==
  /\ pc[r] = "validateOrderId"
  /\ IF req[r].path = "/bad"
     THEN /\ pc' = [pc EXCEPT ![r] = "done"]
          /\ res' = [res EXCEPT ![r] = Response(400, "InvalidInput")]
     ELSE /\ pc' = [pc EXCEPT ![r] = "handler"]
          /\ UNCHANGED res
  /\ UNCHANGED <<medicines, po, orders, req, txn, loc, initial, auth, localStorage>>

\* The route's handler runs: createOrder in full; of the other handlers
\* only the response, none of them writes the catalog, the purchase order
\* or the order ledger.
Handler(r, items) ==
  /\ pc[r] = "handler"
  /\ IF RouteOf(req[r]).handler = "createOrder"
     THEN CreateOrderBegin(r, Body(items))
     ELSE /\ req' = [req EXCEPT ![r] = [op |-> RouteOf(req[r]).handler]]
          /\ pc' = [pc EXCEPT ![r] = "done"]
          /\ res' = [res EXCEPT ![r] = Response(200, "OK")]
          /\ UNCHANGED <<medicines, po, orders, txn, loc, initial, auth, localStorage>>

NextRoutes ==
  \E r \in Reqs :
    \/ Idle(r) /\ \E name \in {"orders", "suppliers"},
                      method \in {"GET", "POST", "PUT", "DELETE"},
                      path \in Paths, user \in Users :
                     RouteRequest(r, name, method, path, user)
    \/ Auth(r)
    \/ CheckRole(r)
    \/ ValidateOrderId(r)
    \/ \E items \in {<<Line("m1", 1)>>, <<Line("m2", 1)>>} : Handler(r, items)
    \/ CreateOrderUpdate(r)
    \/ \E saveOk \in BOOLEAN : CreateOrderCommit(r, saveOk)

SpecRoutes == InitCart /\ [][NextRoutes]_vars

(***************************************************************************)
(* Client: useRole().hasPermission.                                        *)
(***************************************************************************)
\* rolePermissions with orders:create granted to warehouse users.
RolePermissionsWarehouseSells ==
  [counter |-> {"orders:create", "orders:read", "medicines:read", "customers:all",
                "dashboard:view"},
   warehouse |-> {"inventory:all", "suppliers:all", "purchase-orders:all",
                  "medicines:write", "orders:create"}]

RolePermissions ==
  [counter |-> {"orders:create", "orders:read", "medicines:read", "customers:all",
                "dashboard:view"},
   warehouse |-> {"inventory:all", "suppliers:all", "purchase-orders:all",
                  "medicines:write"}]

\* user: the signed-in user's role, Absent when nobody is signed in.
HasPermission(user, permission) ==
  IF user = {} THEN FALSE
  ELSE IF Val(user) = "admin" THEN TRUE
  ELSE IF Val(user) \in DOMAIN RolePermissions
       THEN permission \in RolePermissions[Val(user)]
       ELSE FALSE

\* The permissions the client asks about, and one that no role lists.
Permissions ==
  {"orders:create", "orders:read", "medicines:read", "customers:all", "dashboard:view",
   "inventory:all", "suppliers:all", "purchase-orders:all", "medicines:write",
   "users:all"}

\* Signed-in users of the three roles, of a role without a permission
\* list, and nobody.
ClientUsers == Users \cup {Some("manager")}

\* A component calls hasPermission(permission) for the current user.
CheckPermission(r, user, permission) ==
  /\ pc[r] = "idle"
  /\ req' = [req EXCEPT ![r] = [op |-> "hasPermission", user |-> user,
                                permission |-> permission]]
  /\ pc' = [pc EXCEPT ![r] = "done"]
  /\ res' = [res EXCEPT ![r] =
               Response(0, IF HasPermission(user, permission) THEN "true" ELSE "false")]
  /\ UNCHANGED <<medicines, po, orders, txn, loc, initial, auth, localStorage>>

NextRole ==
  \E r \in Reqs, user \in ClientUsers, permission \in Permissions :
    CheckPermission(r, user, permission)

SpecRole == InitCart /\ [][NextRole]_vars

(***************************************************************************)
(* Client: the initialisation effect of useAuth.  A request slot is a      *)
(* mounted component that calls useAuth(); its effect runs after the mount *)
(* and after every render in which user or initialized differ from the     *)
(* values of its last run.  An effect that awaits getCurrentUser is        *)
(* suspended until the request settles.                                    *)
(***************************************************************************)
\* Values of localStorage.getItem("token"): null, "" and a token.
Tokens == {Absent, Some(""), Some("t1")}

\* JS truthiness of a stored token: null and "" are falsy.
StoredToken(storage) == storage.token # {} /\ Val(storage.token) # ""

\* The reducers of the auth slice that the effect dispatches.
StartInitialization(state) == [state EXCEPT !.isLoading = TRUE]

SetInitialized(state) == [state EXCEPT !.initialized = TRUE, !.isLoading = FALSE]

\* getCurrentUser.fulfilled: the user is stored; whether the reducer also
\* marks the slice initialized is its own business (marks).
GetCurrentUserFulfilledState(state, user, marks) ==
  [state EXCEPT !.user = user, !.isLoading = FALSE,
                !.initialized = IF marks THEN TRUE ELSE @]

\* getCurrentUser.rejected
GetCurrentUserRejectedState(state) == [state EXCEPT !.isLoading = FALSE]

\* The effect's dependencies [dispatch, user, initialized] at a run.
Deps(state) == [op |-> "initializeAuth", user |-> state.user,
                initialized |-> state.initialized]

\* useEffect(() => { initializeAuth() }, [dispatch, user, initialized])
InitializeAuth(r) ==
  /\ pc[r] = "idle" \/ (req[r].op = "initializeAuth" /\ req[r] # Deps(auth))
  /\ req' = [req EXCEPT ![r] = Deps(auth)]
  /\ UNCHANGED <<medicines, po, orders, txn, loc, initial, localStorage>>
  /\ IF auth.initialized
     THEN /\ pc' = [pc EXCEPT ![r] = IF @ = "fetch" THEN "fetch" ELSE "done"]
          /\ res' = [res EXCEPT ![r] = Response(0, "returned")]
          /\ UNCHANGED auth
     ELSE IF StoredToken(localStorage) /\ auth.user = {}
     THEN /\ auth' = StartInitialization(auth)
          /\ pc' = [pc EXCEPT ![r] = "fetch"]
          /\ res' = [res EXCEPT ![r] = Response(0, "getCurrentUser")]
     ELSE /\ auth' = SetInitialized(auth)
          /\ pc' = [pc EXCEPT ![r] = IF @ = "fetch" THEN "fetch" ELSE "done"]
          /\ res' = [res EXCEPT ![r] = Response(0, "setInitialized")]

\* await dispatch(getCurrentUser()).unwrap() resolves.
GetCurrentUserFulfilled(r, user, marks) ==
  /\ pc[r] = "fetch"
  /\ pc' = [pc EXCEPT ![r] = "done"]
  /\ auth' = GetCurrentUserFulfilledState(auth, user, marks)
  /\ res' = [res EXCEPT ![r] = Response(0, "fulfilled")]
  /\ UNCHANGED <<medicines, po, orders, req, txn, loc, initial, localStorage>>

\* The catch block with the dispatch of setInitialized left out.
GetCurrentUserRejectedNotInitialized(r) ==
  /\ pc[r] = "fetch"
  /\ pc' = [pc EXCEPT ![r] = "done"]
  /\ localStorage' = [localStorage EXCEPT !.token = Absent]
  /\ auth' = GetCurrentUserRejectedState(auth)
  /\ res' = [res EXCEPT ![r] = Response(0, "rejected")]
  /\ UNCHANGED <<medicines, po, orders, req, txn, loc, initial>>

\* It rejects: catch, localStorage.removeItem("token"), setInitialized.
GetCurrentUserRejected(r) ==
  /\ pc[r] = "fetch"
  /\ pc' = [pc EXCEPT ![r] = "done"]
  /\ localStorage' = [localStorage EXCEPT !.token = Absent]
  /\ auth' = SetInitialized(GetCurrentUserRejectedState(auth))
  /\ res' = [res EXCEPT ![r] = Response(0, "rejected")]
  /\ UNCHANGED <<medicines, po, orders, req, txn, loc, initial>>

\* The app starts with any stored token, with or without a user in the
\* store, initialized or not.
InitAuth ==
  /\ InitServer(Catalog(MaxQty, FALSE), "pending")
  /\ \E token \in Tokens, user \in Users, initialized \in BOOLEAN :
       /\ auth = [NoAuth EXCEPT !.user = user, !.initialized = initialized]
       /\ localStorage = [token |-> token]

NextAuth ==
  \E r \in Reqs :
    \/ InitializeAuth(r)
    \/ \E user \in Users \ {Absent}, marks \in BOOLEAN :
         GetCurrentUserFulfilled(r, user, marks)
    \/ GetCurrentUserRejected(r)

\* React runs a pending effect, and the request of getCurrentUser settles.
SpecAuth == InitAuth /\ [][NextAuth]_vars /\ WF_vars(NextAuth)

(***************************************************************************)
(* Properties.                                                             *)
(***************************************************************************)
\* Quantity ordered of entry m over all lines of a cart.
RECURSIVE Ordered(_, _)
Ordered(items, m) ==
  IF items = <<>> THEN 0
  ELSE (IF Val(Head(items).medicineId) = m THEN Val(Head(items).quantity) ELSE 0)
       + Ordered(Tail(items), m)

Cart(r) == Val(req[r].body.items)

\* C1: all-or-nothing order creation.  A createOrder request changes the
\* committed catalog and the order ledger in no step other than the one in
\* which it succeeds; so a request that ends in any failure (invalid input,
\* per-line inventory errors, failed re-check, rejected save) leaves every
\* catalog entry and the ledger as they were.
C1_AllOrNothing ==
  [][\A r \in Reqs :
       ( /\ req'[r].op = "createOrder"
         /\ (pc'[r] # pc[r] \/ loc'[r] # loc[r])
         /\ res'[r].kind # "Created" )
       => (medicines' = medicines /\ orders' = orders)]_vars

\* A createOrder request failed after it had decremented a line.
C1_Witness ==
  \E r \in Reqs :
    /\ req[r].op = "createOrder"
    /\ pc[r] = "done"
    /\ res[r].kind \in {"InternalError", "ConcurrencyConflict"}
    /\ loc[r].i >= 2

\* C2: the step in which a createOrder succeeds takes from every catalog
\* entry exactly the quantity the cart orders of it (nothing from an entry
\* the cart does not reference), changes no other field, and leaves no
\* quantity negative.
C2_ExactDecrement ==
  [][\A r \in Reqs :
       (req[r].op = "createOrder" /\ res[r].kind # "Created" /\ res'[r].kind = "Created")
       => \A m \in MedIds :
            /\ medicines'[m] =
                 [medicines[m] EXCEPT !.quantity = @ - Ordered(Cart(r), m)]
            /\ medicines'[m].quantity >= 0]_vars

\* A two-line order succeeded.
C2_Witness ==
  \E r \in Reqs :
    /\ res[r].kind = "Created"
    /\ Len(Cart(r)) = 2
    /\ medicines["m1"].quantity < initial["m1"].quantity

\* C3: two createOrder requests that both ask for the last unit of m1, with
\* no save of an order rejected: exactly one succeeds, the other fails with
\* the insufficient-inventory or the concurrent-conflict error, one order is
\* recorded, and the final quantity is 0.
C3_LastUnit ==
  ( /\ initial["m1"].quantity = 1
    /\ \A r \in Reqs :
         /\ req[r].op = "createOrder"
         /\ pc[r] = "done"
         /\ Cart(r) = <<Line("m1", 1)>>
         /\ res[r].message # "OrderSaveFailed" )
  => /\ Cardinality({r \in Reqs : res[r].kind = "Created"}) = 1
     /\ \A r \in Reqs :
          res[r].kind \in {"Created", "InsufficientInventory", "ConcurrencyConflict"}
     /\ Len(orders) = 1
     /\ medicines["m1"].quantity = 0

\* C4: no catalog quantity is ever negative.
C4_QuantityNonNegative == \A m \in MedIds : medicines[m].quantity >= 0

\* A stock writer brought m1 down to 0 from a positive quantity.
C4_Witness ==
  /\ initial["m1"].quantity > 0
  /\ medicines["m1"].quantity = 0
  /\ \E r \in Reqs : req[r].op = "reduceQuantity" /\ res[r].kind = "OK"

\* A line whose catalog entry is missing, short of stock or expired.
Offends(line, cat) ==
  /\ line.medicineId # {}
  /\ line.quantity # {}
  /\ LET id == Val(line.medicineId)
     IN \/ id \notin DOMAIN cat
        \/ cat[id].quantity < Val(line.quantity)
        \/ cat[id].expired

OffendingLines(items, cat) == SelectSeq(items, LAMBDA line : Offends(line, cat))

\* C5: an insufficient-inventory failure lists one error for every
\* offending line of the cart, in cart order, not only for the first.
C5_AllOffendingLines ==
  \A r \in Reqs :
    res[r].kind = "InsufficientInventory" =>
      LET off == OffendingLines(Cart(r), initial)
      IN /\ Len(res[r].errors) = Len(off)
         /\ \A j \in 1..Len(off) :
              /\ res[r].errors[j].medicineId = Val(off[j].medicineId)
              /\ res[r].errors[j].requested = Val(off[j].quantity)

\* Two lines of one cart were reported.
C5_Witness ==
  \E r \in Reqs : res[r].kind = "InsufficientInventory" /\ Len(res[r].errors) >= 2

RECURSIVE SumLineTotals(_)
SumLineTotals(items) ==
  IF items = <<>> THEN 0 ELSE Head(items).totalPrice + SumLineTotals(Tail(items))

TotalsConsistent(o) ==
  /\ o.subtotal = SumLineTotals(o.items)
  /\ o.total = Max(0, o.subtotal + o.taxAmount - o.discountAmount)

NotNegative(x) == x = {} \/ Val(x) >= 0

\* The request supplies no subtotal and no grand total of its own, no
\* negative tax or discount, and its lines do not sum below zero.
ComputedTotals(body, o) ==
  /\ ~Truthy(body.totals.subtotal)
  /\ ~Truthy(body.totals.grandTotal)
  /\ NotNegative(body.totals.taxAmount)
  /\ NotNegative(body.payment.taxPercent)
  /\ NotNegative(body.payment.globalDiscount)
  /\ SumLineTotals(o.items) >= 0

RECURSIVE Received(_, _, _)
Received(updates, items, m) ==
  IF updates = <<>> THEN 0
  ELSE (IF /\ Head(updates).itemId \in DOMAIN items
           /\ Head(updates).receivedQuantity > 0
           /\ items[Head(updates).itemId].medicineId = m
        THEN Head(updates).receivedQuantity ELSE 0)
       + Received(Tail(updates), items, m)

\* C7: the step in which a receivePurchaseOrder succeeds starts from a
\* pending or ordered purchase order, adds to every catalog entry exactly
\* the received quantities of the updates that name its items, and leaves
\* the purchase order received.
C7_ReceiveIncrements ==
  [][\A r \in Reqs :
       (req[r].op = "receive" /\ res[r].kind # "Received" /\ res'[r].kind = "Received")
       => /\ po.status \in {"pending", "ordered"}
          /\ po'.status = "received"
          /\ \A m \in MedIds :
               medicines'[m].quantity =
                 medicines[m].quantity + Received(Val(req[r].itemUpdates), po.items, m)]_vars

\* A receiving added 2 units to m1.
C7_Witness ==
  \E r \in Reqs :
    /\ req[r].op = "receive"
    /\ res[r].kind = "Received"
    /\ po.status = "received"
    /\ medicines["m1"].quantity = initial["m1"].quantity + 2

\* C8: a receivePurchaseOrder for a purchase order that does not exist
\* ends with not-found, and one that finds the purchase order received or
\* cancelled ends with invalid-state; either leaves the catalog and the
\* purchase order as they were.
C8_ReceiveRejected ==
  [][\A r \in Reqs :
       (pc[r] = "idle" /\ req'[r].op = "receive")
       => /\ req'[r].id # PoId =>
               (res'[r].kind = "NotFound" /\ medicines' = medicines /\ po' = po)
          /\ (req'[r].id = PoId /\ po.status \in {"received", "cancelled"}) =>
               (res'[r].kind = "InvalidState" /\ pc'[r] = "done"
                /\ medicines' = medicines /\ po' = po)]_vars

\* A second receiving of a purchase order already received was rejected.
C8_Witness ==
  \E r, o \in Reqs :
    /\ req[r].op = "receive" /\ res[r].kind = "Received"
    /\ req[o].op = "receive" /\ res[o].kind = "InvalidState"
    /\ initial["m1"].quantity < medicines["m1"].quantity

\* C9: received and cancelled are terminal statuses of a purchase order,
\* and a receiving succeeds only from pending or ordered.
C9_TerminalStatus ==
  [][/\ po.status = "received" => po'.status = "received"
     /\ po.status = "cancelled" => po'.status = "cancelled"
     /\ \A r \in Reqs :
          (req[r].op = "receive" /\ res[r].kind # "Received" /\ res'[r].kind = "Received")
          => po.status \in {"pending", "ordered"}]_vars

\* C10: updatePurchaseOrder changes the purchase order only while its
\* status is pending; on any other status it fails and changes nothing.
C10_UpdateOnlyPending ==
  [][\A r \in Reqs :
       (req'[r].op = "updatePurchaseOrder" /\ pc'[r] # pc[r])
       => /\ po' # po => po.status = "pending"
          /\ (pc[r] = "idle" /\ req'[r].id = PoId /\ po.status # "pending")
               => (res'[r].kind = "InvalidState" /\ po' = po)]_vars

\* A cart that createOrder must reject as invalid input.
InvalidCart(body) ==
  \/ body.items = {}
  \/ ~body.itemsIsArray
  \/ Val(body.items) = <<>>
  \/ \E k \in 1..Len(Val(body.items)) :
       LET line == Val(body.items)[k]
       IN line.medicineId = {} \/ line.quantity = {} \/ Val(line.quantity) <= 0

Gate(handler) ==
  IF handler \in {"createOrder", "getAllOrders", "getOrder", "getOrderPdf"}
    THEN {"admin", "counter"}
  ELSE IF handler \in {"getAllSuppliers", "getSupplier", "createSupplier", "updateSupplier"}
    THEN {"admin", "warehouse"}
  ELSE IF handler \in {"getDashboardData", "deleteSupplier"}
    THEN {"admin"}
  ELSE {}

\* C12: role gates run before the handlers.  A request is at its handler
\* only with an authenticated user whose role the handler is open to; a
\* handler starts only from that position; and no step of a request still
\* in the middleware chain changes the catalog, the purchase order or the
\* order ledger.
C12_RoleGates ==
  [][\A r \in Reqs :
       /\ pc'[r] = "handler" =>
            /\ req'[r].user # {}
            /\ Val(req'[r].user) \in Gate(RouteOf(req'[r]).handler)
       /\ (req[r].op = "http" /\ req'[r].op # "http") =>
            (pc[r] = "handler" /\ req'[r].op = RouteOf(req[r]).handler)
       /\ (pc[r] \in {"idle", "auth", "checkRole", "validateOrderId"} /\ pc'[r] # pc[r]) =>
            (medicines' = medicines /\ po' = po /\ orders' = orders)]_vars

\* One request was stopped by the role gate of POST /orders while another
\* passed it and created an order.
C12_Witness ==
  \E r, o \in Reqs :
    /\ req[r].op = "createOrder" /\ res[r].kind = "Created"
    /\ req[o].op = "http" /\ req[o].router = "orders" /\ req[o].method = "POST"
    /\ req[o].user = Some("warehouse") /\ res[o].kind = "Forbidden"

\* An order with its status left out of the comparison.
Frame(order) == [order EXCEPT !.status = "any"]

\* C13: an order is never changed after its creation except for its
\* status.  No step removes an order or changes any field of a recorded
\* order other than status, and the step of an updateOrderStatus request
\* changes at most the status of the order it names, no other order and no
\* catalog entry.
C13_StatusOnly ==
  [][/\ Len(orders') >= Len(orders)
     /\ \A k \in 1..Len(orders) : Frame(orders'[k]) = Frame(orders[k])
     /\ \A r \in Reqs :
          (pc[r] = "idle" /\ req'[r].op = "updateOrderStatus")
          => /\ medicines' = medicines
             /\ Len(orders') = Len(orders)
             /\ \A k \in 1..Len(orders) : k # req'[r].id => orders'[k] = orders[k]]_vars

\* An updateOrderStatus request changed the status of a recorded order.
C13_Witness ==
  \E r \in Reqs :
    /\ req[r].op = "updateOrderStatus"
    /\ res[r].kind = "OK"
    /\ req[r].id \in 1..Len(orders)
    /\ orders[req[r].id].status = "cancelled"

\* C14: hasPermission is false when nobody is signed in, true for every
\* permission of an admin, and for a counter or warehouse user true exactly
\* for the permissions of that role's list; a counter user holds none of
\* the warehouse permissions and a warehouse user does not hold
\* orders:create.
C14_HasPermission ==
  \A r \in Reqs :
    req[r].op = "hasPermission" =>
      LET user == req[r].user
          permission == req[r].permission
          granted == res[r].kind = "true"
      IN /\ res[r].kind \in {"true", "false"}
         /\ user = {} => ~granted
         /\ user = Some("admin") => granted
         /\ user \in {Some("counter"), Some("warehouse")} =>
              (granted <=> permission \in RolePermissions[Val(user)])
         /\ (user = Some("counter")
               /\ permission \in {"inventory:all", "suppliers:all", "purchase-orders:all",
                                   "medicines:write"}) => ~granted
         /\ (user = Some("warehouse") /\ permission = "orders:create") => ~granted

\* A counter user was granted orders:create and a warehouse user was
\* denied it.
C14_Witness ==
  \E r, o \in Reqs :
    /\ req[r].op = "hasPermission" /\ req[r].user = Some("counter")
    /\ req[r].permission = "orders:create" /\ res[r].kind = "true"
    /\ req[o].op = "hasPermission" /\ req[o].user = Some("warehouse")
    /\ req[o].permission = "orders:create" /\ res[o].kind = "false"

\* A cart line that supplies a negative price or a discount outside 0..100.
BadPricing(line) ==
  \/ line.unitPrice # {} /\ Val(line.unitPrice) < 0
  \/ line.tradePrice # {} /\ Val(line.tradePrice) < 0
  \/ line.discountPercent # {} /\ ~(Val(line.discountPercent) \in 0..100)

\* C15: every stored line profit and every stored order profit is at
\* least 0, also when the trade price exceeds the discounted unit price; a
\* line with a discount of exactly 100 percent is stored with a discount
\* amount of unitPrice * quantity; and a well-formed cart is not rejected
\* as invalid input unless one of its lines has a negative price or a
\* discount outside 0..100, so a discount of 100 is accepted.
C15_ProfitFloor ==
  /\ \A k \in 1..Len(orders) :
       /\ orders[k].profit >= 0
       /\ \A j \in 1..Len(orders[k].items) :
            LET it == orders[k].items[j]
            IN /\ it.profit >= 0
               /\ it.discount = 100 => it.discountAmount = Money(it.retailPrice) * it.quantity
  /\ \A r \in Reqs :
       (req[r].op = "createOrder" /\ res[r].kind = "InvalidInput"
          /\ ~InvalidCart(req[r].body))
       => \E j \in 1..Len(Cart(r)) : BadPricing(Cart(r)[j])

\* An order holds a line sold at a discount of 100 percent, below its
\* trade price, with a profit of 0.
C15_Witness ==
  \E k \in 1..Len(orders) : \E j \in 1..Len(orders[k].items) :
    LET it == orders[k].items[j]
    IN /\ it.discount = 100
       /\ it.discountAmount = Money(it.retailPrice) * it.quantity
       /\ it.discountAmount > 0
       /\ it.tradePrice > 0
       /\ it.profit = 0

\* GST per unit charged on a cart line: the line's, else the catalog's.
GstPerUnit(line, cat) ==
  OrElse(line.gstPerUnit, cat[Val(line.medicineId)].gstPerUnit)

\* C16: every stored line with unit price u, trade price t, quantity q,
\* discount percent d and GST per unit g has discountAmount = u*q*d/100,
\* line total = u*q - discountAmount + g*q and line profit =
\* max(0, u - discountAmount/q - t) * q; the line q=2, u=100, t=60, d=10,
\* g=5 is stored with discount amount 20, line total 190 and profit 60.
C16_LineFormulas ==
  \A k \in 1..Len(orders) : \A j \in 1..Len(orders[k].items) :
    LET it == orders[k].items[j]
        line == Cart(orders[k].createdBy)[j]
        u == Money(it.retailPrice)
        t == Money(it.tradePrice)
        q == it.quantity
        d == it.discount
        g == Money(GstPerUnit(line, initial))
    IN /\ it.discountAmount * 100 = u * q * d
       /\ it.totalPrice = u * q - it.discountAmount + g * q
       /\ it.profit = Max(0, (u - t) * q - it.discountAmount)
       /\ (q = 2 /\ it.retailPrice = 100 /\ it.tradePrice = 60 /\ d = 10
             /\ line.gstPerUnit = Some(5))
            => /\ it.discountAmount = Money(20)
               /\ it.totalPrice = Money(190)
               /\ it.profit = Money(60)

\* The example line was stored.
C16_Witness ==
  \E k \in 1..Len(orders) : \E j \in 1..Len(orders[k].items) :
    LET it == orders[k].items[j]
    IN /\ it.quantity = 2 /\ it.retailPrice = 100 /\ it.tradePrice = 60
       /\ it.discount = 10
       /\ Cart(orders[k].createdBy)[j].gstPerUnit = Some(5)
       /\ it.totalPrice = Money(190)

\* Net change of entry m by the requests that succeeded: received minus sold.
RECURSIVE NetChange(_, _)
NetChange(rs, m) ==
  IF rs = {} THEN 0
  ELSE LET r == CHOOSE x \in rs : TRUE
           own == IF req[r].op = "createOrder" /\ res[r].kind = "Created"
                    THEN 0 - Ordered(Cart(r), m)
                  ELSE IF req[r].op = "receive" /\ res[r].kind = "Received"
                    THEN Received(Val(req[r].itemUpdates), po.items, m)
                  ELSE 0
       IN own + NetChange(rs \ {r}, m)

\* C17: no lost update on stock.  While createOrder and
\* receivePurchaseOrder requests are the only writers, every entry's
\* quantity is its initial quantity minus what the successful orders sold
\* plus what the successful receivings received; a request that failed or
\* has not committed contributes nothing.
C17_NoLostUpdate ==
  (\A r \in Reqs : req[r].op \in {"none", "createOrder", "receive"})
  => \A m \in MedIds :
       medicines[m].quantity = initial[m].quantity + NetChange(Reqs, m)

\* An order and a receiving on the same entry both succeeded.
C17_Witness ==
  \E r, o \in Reqs :
    /\ req[r].op = "createOrder" /\ res[r].kind = "Created"
    /\ Ordered(Cart(r), "m1") > 0
    /\ req[o].op = "receive" /\ res[o].kind = "Received"
    /\ Received(Val(req[o].itemUpdates), po.items, "m1") > 0

\* C18: receiving is atomic.  The step in which a receivePurchaseOrder
\* succeeds applies all of its increments together with the status
\* received, and in every state after it the purchase order is received;
\* a step in which a receivePurchaseOrder does not succeed, also one after
\* increments were written, changes no catalog entry and not the purchase
\* order.
C18_ReceiveAtomic ==
  [][\A r \in Reqs :
       (req'[r].op = "receive" /\ pc'[r] = "done")
       => IF res'[r].kind = "Received"
          THEN /\ po'.status = "received"
               /\ res[r].kind # "Received" =>
                    \A m \in MedIds :
                      medicines'[m].quantity =
                        medicines[m].quantity
                          + Received(Val(req'[r].itemUpdates), po.items, m)
          ELSE pc[r] # "done" => (medicines' = medicines /\ po' = po)]_vars

\* A line that passes the format, lookup, stock and expiry checks.
PassesChecks(line, cat) ==
  /\ line.medicineId # {}
  /\ line.quantity # {}
  /\ Val(line.quantity) > 0
  /\ ~Offends(line, cat)

\* The line's effective unit or trade price is negative, or its discount
\* percent is outside 0..100.
InvalidPricing(line, cat) ==
  LET medicine == cat[Val(line.medicineId)]
  IN \/ OrElse(line.unitPrice, medicine.retailPrice) < 0
     \/ OrElse(line.tradePrice, medicine.tradePrice) < 0
     \/ OrElse(line.discountPercent, 0) < 0
     \/ OrElse(line.discountPercent, 0) > 100

\* C19: a createOrder whose cart has a line that passes the lookup, stock
\* and expiry checks with a negative effective unit or trade price, or a
\* discount percent below 0 or above 100, ends with the invalid-input
\* error in the step that receives it, creates no order and changes no
\* catalog entry.
C19_InvalidPricing ==
  [][\A r \in Reqs :
       ( /\ pc[r] = "idle"
         /\ req'[r].op = "createOrder"
         /\ req'[r].body.items # {}
         /\ \E j \in 1..Len(Val(req'[r].body.items)) :
              LET line == Val(req'[r].body.items)[j]
              IN PassesChecks(line, medicines) /\ InvalidPricing(line, medicines) )
       => /\ pc'[r] = "done"
          /\ res'[r] = Response(400, "InvalidInput")
          /\ medicines' = medicines
          /\ orders' = orders]_vars

\* A cart was rejected for the negative trade price of its second line.
C19_Witness ==
  \E r \in Reqs :
    /\ req[r].op = "createOrder"
    /\ res[r].kind = "InvalidInput"
    /\ req[r].body.items =
         Some(<<Line("m1", 1), [Line("m1", 1) EXCEPT !.tradePrice = Some(-1)]>>)

\* The lines of a cart that are well formed and name an expired entry.
ExpiredLines(r) ==
  {j \in 1..Len(Cart(r)) :
     LET line == Cart(r)[j]
     IN /\ line.medicineId # {} /\ line.quantity # {} /\ Val(line.quantity) > 0
        /\ Val(line.medicineId) \in DOMAIN initial
        /\ initial[Val(line.medicineId)].expired}

\* No recorded order holds a line of an entry that was expired.
NoExpiredLineSold ==
  \A k \in 1..Len(orders) : \A j \in 1..Len(orders[k].items) :
    ~initial[orders[k].items[j].medicineId].expired

CurrentLine(r) == Cart(r)[loc[r].i]

\* C21: within one createOrder request nothing is written to the catalog,
\* not even inside the transaction, by the step that validates the cart,
\* and the request reaches its second loop only with every line valid.
\* Each decrement is written in the step that re-reads the entry and finds
\* at least the requested quantity, the quantity read being the committed
\* one less this request's own earlier decrements; it takes exactly the
\* requested quantity.  A re-check that finds less ends the request with
\* the concurrent-conflict error, with its transaction discarded and the
\* catalog and the ledger as they were.
C21_CheckThenDecrement ==
  [][\A r \in Reqs :
       /\ (pc[r] = "idle" /\ req'[r].op = "createOrder") =>
            /\ medicines' = medicines
            /\ txn'[r].wMed = EmptyMeds
            /\ pc'[r] = "update" =>
                 \A j \in 1..Len(Val(req'[r].body.items)) :
                   LET line == Val(req'[r].body.items)[j]
                   IN PassesChecks(line, medicines) /\ ~InvalidPricing(line, medicines)
       /\ (req[r].op = "createOrder" /\ txn'[r].active /\ txn'[r].wMed # txn[r].wMed) =>
            /\ pc[r] = "update"
            /\ LET id == Val(CurrentLine(r).medicineId)
                   quantity == Val(CurrentLine(r).quantity)
                   read == TxFindById(txn[r], id)
               IN /\ read.quantity >= quantity
                  /\ id \notin DOMAIN txn[r].wMed => read = medicines[id]
                  /\ DOMAIN txn'[r].wMed = DOMAIN txn[r].wMed \cup {id}
                  /\ txn'[r].wMed[id] = [read EXCEPT !.quantity = @ - quantity]
                  /\ \A m \in DOMAIN txn[r].wMed \ {id} : txn'[r].wMed[m] = txn[r].wMed[m]
       /\ ( /\ req[r].op = "createOrder" /\ pc[r] = "update"
            /\ (pc'[r] # pc[r] \/ loc'[r] # loc[r])
            /\ TxFindById(txn[r], Val(CurrentLine(r).medicineId)).quantity
                 < Val(CurrentLine(r).quantity) ) =>
            /\ pc'[r] = "done"
            /\ res'[r] = Response(400, "ConcurrencyConflict")
            /\ txn'[r] = NoTxn
            /\ medicines' = medicines
            /\ orders' = orders]_vars

\* The re-check of a second line failed after the first line's decrement
\* was written, and the catalog is as it was.
C21_Witness ==
  \E r \in Reqs :
    /\ req[r].op = "createOrder"
    /\ res[r].kind = "ConcurrencyConflict"
    /\ loc[r].i = 2
    /\ medicines = initial
    /\ orders = <<>>

\* A totals value the request supplies, at least 0.
Supplied(x) == x # {} /\ Val(x) >= 0

\* C22: a persisted order stores exactly the supplied totals.subtotal,
\* totals.taxAmount and totals.grandTotal (any supplied value at or above 0,
\* 0 included) as its subtotal, tax amount and total; a field the request
\* does not supply is computed from the line totals, taxPercent and
\* globalDiscount; and subtotal, tax percent, tax amount, discount amount,
\* total and profit are all at least 0.
C22_SuppliedTotals ==
  \A k \in 1..Len(orders) :
    LET o == orders[k]
        body == req[o.createdBy].body
        totals == body.totals
        taxPercent == IF body.payment.taxPercent = {} THEN 0
                      ELSE Val(body.payment.taxPercent)
        globalDiscount == IF body.payment.globalDiscount = {} THEN 0
                          ELSE Money(Val(body.payment.globalDiscount))
        subtotal == IF totals.subtotal = {} THEN SumLineTotals(o.items)
                    ELSE Money(Val(totals.subtotal))
        taxAmount == IF totals.taxAmount = {} THEN (subtotal * taxPercent) \div 100
                     ELSE Money(Val(totals.taxAmount))
        grandTotal == IF totals.grandTotal = {} THEN subtotal + taxAmount - globalDiscount
                      ELSE Money(Val(totals.grandTotal))
    IN /\ Supplied(totals.subtotal) => o.subtotal = Money(Val(totals.subtotal))
       /\ Supplied(totals.taxAmount) => o.taxAmount = Money(Val(totals.taxAmount))
       /\ Supplied(totals.grandTotal) => o.total = Money(Val(totals.grandTotal))
       /\ (\A f \in DOMAIN totals : NotNegative(totals[f])) =>
            /\ o.subtotal = Max(0, subtotal)
            /\ o.taxAmount = Max(0, taxAmount)
            /\ o.total = Max(0, grandTotal)
       /\ o.subtotal >= 0 /\ o.taxPercent >= 0 /\ o.taxAmount >= 0
       /\ o.discountAmount >= 0 /\ o.total >= 0 /\ o.profit >= 0

\* The value a cart line supplies, else the catalog's.
SuppliedOr(x, d) == IF x = {} THEN d ELSE Val(x)

\* C23: every stored line carries as unit price and trade price the value
\* its cart line supplies (any supplied value at or above 0, 0 included)
\* and the catalog entry's retail and trade price only when the line
\* supplies none; its line total and profit are computed from those prices
\* and from the GST per unit chosen the same way.
C23_SuppliedPrices ==
  \A k \in 1..Len(orders) : \A j \in 1..Len(orders[k].items) :
    LET it == orders[k].items[j]
        line == Cart(orders[k].createdBy)[j]
        medicine == initial[it.medicineId]
        u == SuppliedOr(line.unitPrice, medicine.retailPrice)
        t == SuppliedOr(line.tradePrice, medicine.tradePrice)
        g == SuppliedOr(line.gstPerUnit, medicine.gstPerUnit)
        q == it.quantity
    IN /\ NotNegative(line.unitPrice) => it.retailPrice = u
       /\ NotNegative(line.tradePrice) => it.tradePrice = t
       /\ (NotNegative(line.unitPrice) /\ NotNegative(line.gstPerUnit)) =>
            it.totalPrice = Money(u) * q - it.discountAmount + Money(g) * q
       /\ (NotNegative(line.unitPrice) /\ NotNegative(line.tradePrice)) =>
            it.profit = Max(0, (Money(u) - Money(t)) * q - it.discountAmount)

\* Quantity of entry m on the lines of a sequence of stored lines.
RECURSIVE SoldOnLines(_, _)
SoldOnLines(items, m) ==
  IF items = <<>> THEN 0
  ELSE (IF Head(items).medicineId = m THEN Head(items).quantity ELSE 0)
       + SoldOnLines(Tail(items), m)

\* Quantity of entry m sold by the first n orders of the ledger.
RECURSIVE Sold(_, _)
Sold(n, m) == IF n = 0 THEN 0 ELSE SoldOnLines(orders[n].items, m) + Sold(n - 1, m)

\* C24: no request observes a partially applied order.  While createOrder
\* requests are the only requests, what a reader outside a transaction
\* sees (the committed catalog and ledger) is the initial catalog less, for
\* every order of the ledger, all of that order's lines; and what a request
\* reads inside its transaction (its snapshot) is the initial catalog less
\* all the lines of the orders of some prefix of the ledger.  So an order's
\* decrements are seen all together and only with the order, also while a
\* request for a multi-line cart has written some of its decrements.
C24_NoPartialOrder ==
  (\A r \in Reqs : req[r].op \in {"none", "createOrder"})
  => /\ \A m \in MedIds :
          medicines[m].quantity = initial[m].quantity - Sold(Len(orders), m)
     /\ \A r \in Reqs :
          txn[r].active =>
            \E n \in 0..Len(orders) :
              \A m \in MedIds :
                txn[r].snap[m].quantity = initial[m].quantity - Sold(n, m)

\* An order of two lines was committed while another createOrder request,
\* begun before the commit, still reads the catalog as it was before any of
\* the order's decrements.
C24_Witness ==
  \E r, o \in Reqs :
    /\ req[r].op = "createOrder" /\ res[r].kind = "Created"
    /\ Cart(r) = <<Line("m1", 1), Line("m2", 1)>>
    /\ Len(orders) = 1
    /\ medicines["m1"].quantity = initial["m1"].quantity - 1
    /\ medicines["m2"].quantity = initial["m2"].quantity - 1
    /\ req[o].op = "createOrder" /\ txn[o].active
    /\ txn[o].snap = initial

\* An update that receivePurchaseOrder passes over: its received quantity
\* is not above 0, it names no item of the purchase order, or the item's
\* catalog entry does not exist.
PassedOver(update, items, cat) ==
  \/ update.receivedQuantity <= 0
  \/ update.itemId \notin DOMAIN items
  \/ items[update.itemId].medicineId \notin DOMAIN cat

LinesOf(items, m) ==
  {j \in 1..Len(items) : items[j].medicineId = Some(m)}

\* Two or more lines of the cart name entry m, each asks for no more than
\* is on hand, and together they ask for more.
Oversubscribed(items, m, cat) ==
  /\ \A j \in 1..Len(items) : items[j].medicineId # {} /\ items[j].quantity # {}
  /\ Cardinality(LinesOf(items, m)) >= 2
  /\ \A j \in LinesOf(items, m) : Val(items[j].quantity) <= cat[m].quantity
  /\ Ordered(items, m) > cat[m].quantity

\* C26: a createOrder whose cart has two or more lines for one catalog
\* entry, each within the on-hand quantity, their sum above it, never
\* succeeds: while it runs and after it has ended no order exists and
\* every entry's committed quantity is as before the request, and no
\* quantity, committed or written in the request's transaction, is
\* negative.
C26_DuplicateLines ==
  \A r \in Reqs :
    ( /\ req[r].op = "createOrder"
      /\ req[r].body.items # {}
      /\ \E m \in MedIds : Oversubscribed(Cart(r), m, initial) )
    => /\ res[r].kind # "Created"
       /\ pc[r] = "done" =>
            res[r].kind \in {"InvalidInput", "InsufficientInventory", "ConcurrencyConflict"}
       /\ orders = <<>>
       /\ medicines = initial
       /\ \A m \in DOMAIN txn[r].wMed : txn[r].wMed[m].quantity >= 0

\* A cart of the lines (m1, 1) and (m1, 2), with 2 on hand, passed the
\* validation of each line and failed at the re-check of the second line.
C26_Witness ==
  \E r \in Reqs :
    /\ req[r].op = "createOrder"
    /\ req[r].body.items # {}
    /\ Oversubscribed(Cart(r), "m1", initial)
    /\ Len(Cart(r)) = 2
    /\ Ordered(Cart(r), "m1") = 3
    /\ pc[r] = "done"
    /\ res[r].kind = "ConcurrencyConflict"
    /\ loc[r].i = 2
    /\ medicines = initial

\* C27: when a cancelPurchaseOrder and a receivePurchaseOrder on the same
\* purchase order have both ended, it is never the case that the receiving
\* succeeded and increased a catalog quantity while the purchase order is
\* left cancelled.
C27_NoCancelledReceiving ==
  \A r, o \in Reqs :
    ( /\ req[r].op = "receive" /\ req[r].id = PoId /\ pc[r] = "done"
      /\ req[o].op = "cancel" /\ req[o].id = PoId /\ pc[o] = "done"
      /\ res[r].kind = "Received"
      /\ \E m \in MedIds : medicines[m].quantity > initial[m].quantity )
    => po.status # "cancelled"

\* C28: a markAsOrdered request for a missing purchase order ends with
\* not-found, and one that finds a status other than pending ends with the
\* invalid-state error, either leaving the purchase order as it was; a
\* markAsOrdered request succeeds only on a purchase order that is pending
\* and sets it to ordered; and no step takes the purchase order to ordered
\* from any status other than pending.
C28_OrderedOnlyFromPending ==
  [][/\ \A r \in Reqs :
          /\ (pc[r] = "idle" /\ req'[r].op = "markAsOrdered") =>
               /\ req'[r].id # PoId =>
                    (pc'[r] = "done" /\ res'[r].kind = "NotFound" /\ po' = po)
               /\ (req'[r].id = PoId /\ po.status # "pending") =>
                    (pc'[r] = "done" /\ res'[r].kind = "InvalidState" /\ po' = po)
               /\ (req'[r].id = PoId /\ po.status = "pending") => po' = po
          /\ (req[r].op = "markAsOrdered" /\ pc[r] = "mark" /\ pc'[r] = "done") =>
               /\ res'[r].kind = "OK"
               /\ po.status = "pending"
               /\ po'.status = "ordered"
     /\ (po'.status = "ordered" /\ po.status # "ordered") => po.status = "pending"]_vars

\* The one message an offending line is reported with.
MessageKind(line, cat) ==
  IF Val(line.medicineId) \notin DOMAIN cat THEN "NotFound"
  ELSE IF cat[Val(line.medicineId)].quantity < Val(line.quantity) THEN "InsufficientStock"
  ELSE "Expired"

\* C29: the error list of an insufficient-inventory failure holds, in cart
\* order, exactly one message for every line that is missing from the
\* catalog, short of stock or expired, and none for any other line: not
\* found for a missing entry, insufficient stock for an entry with less
\* than the requested quantity also when it is expired, and expired only
\* for an expired entry whose stock covers the request.
C29_MessagePrecedence ==
  \A r \in Reqs :
    res[r].kind = "InsufficientInventory" =>
      LET off == OffendingLines(Cart(r), initial)
      IN /\ Len(res[r].errors) <= Len(Cart(r))
         /\ res[r].errors =
              [j \in 1..Len(off) |-> InventoryError(MessageKind(off[j], initial), off[j])]

\* A cart of two lines for an expired entry, the first asking for more
\* than is in stock, was reported as insufficient stock, then expired.
C29_Witness ==
  \E r \in Reqs :
    /\ res[r].kind = "InsufficientInventory"
    /\ Cart(r) = <<Line("m2", 2), Line("m2", 1)>>
    /\ initial["m2"].expired
    /\ Len(res[r].errors) = 2
    /\ res[r].errors[1].kind = "InsufficientStock"
    /\ res[r].errors[2].kind = "Expired"

\* A step in which the effect of component r runs.
EffectRuns(r) == req'[r] # req[r] /\ req'[r].op = "initializeAuth"

\* The run starts no request of its own.
NoFetch(r) == pc'[r] = "fetch" => pc[r] = "fetch"

\* C30: a run of the initialisation effect does nothing when auth is
\* initialized; with no stored token, or with a stored token and a user, it
\* marks auth initialized and fetches nothing; with a stored token and no
\* user it starts the initialisation and awaits the request for the
\* current user, touching neither the token nor initialized; when that
\* request fails the stored token is removed and auth is marked
\* initialized in the same step; auth once initialized stays so; and
\* unless a request for the current user succeeds, auth is eventually
\* initialized.
C30_InitializeAuth ==
  /\ [][/\ \A r \in Reqs :
            /\ (EffectRuns(r) /\ auth.initialized) =>
                 (auth' = auth /\ localStorage' = localStorage /\ NoFetch(r))
            /\ (EffectRuns(r) /\ ~auth.initialized
                   /\ (~StoredToken(localStorage) \/ auth.user # {})) =>
                 /\ auth'.initialized
                 /\ auth'.user = auth.user
                 /\ localStorage' = localStorage
                 /\ NoFetch(r)
            /\ (EffectRuns(r) /\ ~auth.initialized
                   /\ StoredToken(localStorage) /\ auth.user = {}) =>
                 /\ pc'[r] = "fetch"
                 /\ res'[r].kind = "getCurrentUser"
                 /\ auth'.isLoading
                 /\ ~auth'.initialized
                 /\ localStorage' = localStorage
            /\ (pc[r] = "fetch" /\ res'[r].kind = "rejected") =>
                 /\ localStorage'.token = Absent
                 /\ auth'.initialized
                 /\ auth'.user = auth.user
        /\ auth.initialized => auth'.initialized]_vars
  /\ <>(auth.initialized \/ \E r \in Reqs : res[r].kind = "fulfilled")

\* The request for the current user failed: the stored token is gone and
\* auth is initialized, with nobody signed in.
C30_Witness ==
  \E r \in Reqs :
    /\ req[r].op = "initializeAuth"
    /\ res[r].kind = "rejected"
    /\ localStorage.token = Absent
    /\ auth.initialized
    /\ auth.user = Absent

====
